---- MODULE Spec2Model ----
(***************************************************************************)
(* A model of streamlit_app.py: the sidebar assistant's "Generate Proposal *)
(* Summary" handler and the helper functions it calls, the cached FAQ      *)
(* loader, and the "Extract Labor Roles" and "Estimate Labor Cost" pages.  *)
(*                                                                         *)
(* Texts are TLA+ strings; a character is a string of length 1.            *)
(***************************************************************************)
EXTENDS Integers, Sequences, FiniteSets, TLC

VARIABLES
    pc,             \* position of the handler / page script being run
    extracted_text, \* the text of the uploaded document (line 102)
    inline_roles,   \* what extract_roles_from_structured_blocks returned (line 108)
    roles_data,     \* the local roles_data of the handler
    proposal_reqs,  \* the local proposal_reqs, Unassigned until line 112 runs
    suggest_calls,  \* how many times suggest_roles_from_project was called
    suggested,      \* what its last call returned
    df_roles,       \* the priced rows (roles_data plus total_cost)
    total,          \* the Estimated Total Labor Cost of the page (line 272)
    responses,      \* the (requirement, answer) pairs written to the document
    req_i,          \* index of the next requirement of the loop of line 159
    store,          \* the external store: reachable or not, FAQ rows, role rows
    cache,          \* the st.cache_data entry of load_faq_from_snowflake
    now,            \* seconds since the process started
    last_call,      \* the last call of load_faq_from_snowflake: contacted?, result
    ticks,          \* how many times the clock was advanced
    faq_df,         \* the FAQ corpus handed to answer_proposal_question
    req,            \* the requirement handed to answer_proposal_question
    answer,         \* what answer_proposal_question returned
    page,           \* the page selected in the sidebar (line 14)
    page_df,        \* the role rows the page shows (df_existing / df)
    message,        \* the st.success / st.error / st.exception messages on the screen
    read_failed     \* whether the page's read of EXTRACTED_LABOR_ROLES raised

vars == <<pc, extracted_text, inline_roles, roles_data, proposal_reqs,
          suggest_calls, suggested, df_roles, total, responses, req_i, store,
          cache, now, last_call, ticks, faq_df, req, answer, page, page_df,
          message, read_failed>>

------------------------------------------------------------------------------
(* Characters and strings.                                                 *)

UpperCase == <<"A","B","C","D","E","F","G","H","I","J","K","L","M",
               "N","O","P","Q","R","S","T","U","V","W","X","Y","Z">>
LowerCase == <<"a","b","c","d","e","f","g","h","i","j","k","l","m",
               "n","o","p","q","r","s","t","u","v","w","x","y","z">>

Letters == {UpperCase[i] : i \in 1..26} \cup {LowerCase[i] : i \in 1..26}

Digits == <<"0","1","2","3","4","5","6","7","8","9">>

\* The character U+2022 (the bullet of line 84), which a module cannot spell.
Bullet == "*"

\* What Python's str.strip() and the regex class \s take for whitespace.
WhiteSpace == {" ", "\n", "\t", "\r", "\f"}

CharAt(s, i) == SubSeq(s, i, i)

\* str.lower() of one character.
LowerChar(c) ==
    IF \E i \in 1..26 : UpperCase[i] = c
    THEN LowerCase[CHOOSE i \in 1..26 : UpperCase[i] = c]
    ELSE c

RECURSIVE Lower(_)
\* str.lower(), a half of the string at a time
Lower(s) ==
    IF Len(s) = 0 THEN ""
    ELSE IF Len(s) = 1 THEN LowerChar(s)
    ELSE Lower(SubSeq(s, 1, Len(s) \div 2))
         \o Lower(SubSeq(s, Len(s) \div 2 + 1, Len(s)))

\* The literal lit stands at position i of s; with ic, ignoring case.
LitAt(s, i, lit, ic) ==
    /\ i + Len(lit) - 1 <= Len(s)
    /\ LET sub == SubSeq(s, i, i + Len(lit) - 1)
       IN  IF ic THEN Lower(sub) = Lower(lit) ELSE sub = lit

\* Python's `sub in s`.
Contains(s, sub) == \E i \in 1..(Len(s) + 1) : LitAt(s, i, sub, FALSE)

\* The first position >= i at which sub stands in s (ignoring case with ic),
\* 0 when there is none.
Find(s, sub, i, ic) ==
    LET hits == {j \in i..(Len(s) + 1) : LitAt(s, j, sub, ic)}
    IN  IF hits = {} THEN 0 ELSE CHOOSE j \in hits : \A k \in hits : j <= k

\* The class of the regex dot under re.DOTALL.
AnyChar == {"any"}

\* How many characters of the class cls stand at i, i+1, ... of s.
RECURSIVE Run(_, _, _)
Run(s, i, cls) ==
    IF cls = AnyChar THEN Len(s) + 1 - i
    ELSE IF i <= Len(s) /\ CharAt(s, i) \in cls THEN 1 + Run(s, i + 1, cls)
    ELSE 0

RECURSIVE LStrip(_, _)
LStrip(s, cls) ==
    IF Len(s) > 0 /\ CharAt(s, 1) \in cls
    THEN LStrip(SubSeq(s, 2, Len(s)), cls)
    ELSE s

RECURSIVE RStrip(_, _)
RStrip(s, cls) ==
    IF Len(s) > 0 /\ CharAt(s, Len(s)) \in cls
    THEN RStrip(SubSeq(s, 1, Len(s) - 1), cls)
    ELSE s

\* str.strip(chars)
Strip(s, cls) == RStrip(LStrip(s, cls), cls)

RECURSIVE Split(_, _)
\* str.split(sep) for a separator of one character
Split(s, sep) ==
    LET j == Find(s, sep, 1, FALSE)
    IN  IF j = 0 \/ j > Len(s) THEN <<s>>
        ELSE <<SubSeq(s, 1, j - 1)>> \o Split(SubSeq(s, j + 1, Len(s)), sep)

RECURSIVE Strings(_, _)
\* The texts made of at most n pieces of the set cs, one after the other.
Strings(cs, n) ==
    IF n = 0 THEN {""}
    ELSE Strings(cs, n - 1) \cup {t \o c : t \in Strings(cs, n - 1), c \in cs}

\* The regex anchor $ without re.MULTILINE: the end of the string, or just
\* before a newline that ends it.
AtEnd(s, i) == i = Len(s) + 1 \/ (i = Len(s) /\ CharAt(s, i) = "\n")

------------------------------------------------------------------------------
(* A matcher for the regular expressions of the form the program uses: a   *)
(* sequence of elements, each a literal, a greedy repetition of a          *)
(* character class, a lazy repetition of one, or the anchor $.  It tries   *)
(* the alternatives in the order Python's backtracking matcher does.       *)
(* Both patterns of the program are compiled with re.IGNORECASE: the       *)
(* matcher holds their literals and classes in lower case and is handed    *)
(* the text in lower case, whose positions are those of the text.          *)

Lit(l)      == [k |-> "lit",  lit |-> Lower(l),  cls |-> {}, min |-> 0, alts |-> <<>>]
Star(c)     == [k |-> "rep",  lit |-> "", cls |-> c,  min |-> 0, alts |-> <<>>]
Plus(c)     == [k |-> "rep",  lit |-> "", cls |-> c,  min |-> 1, alts |-> <<>>]
LazyPlus(c) == [k |-> "lazy", lit |-> "", cls |-> c,  min |-> 1, alts |-> <<>>]
LazyStar(c) == [k |-> "lazy", lit |-> "", cls |-> c,  min |-> 0, alts |-> <<>>]
End         == [k |-> "end",  lit |-> "", cls |-> {}, min |-> 0, alts |-> <<>>]
\* (a|b|$): literals, the empty literal standing for the anchor $
Alt(ls)     == [k |-> "alt",  lit |-> "", cls |-> {}, min |-> 0,
                alts |-> [i \in 1..Len(ls) |-> Lower(ls[i])]]

NoMatch == [ok |-> FALSE, ends |-> <<>>]
Then(p, r) == IF r.ok THEN [ok |-> TRUE, ends |-> <<p>> \o r.ends] ELSE NoMatch

RECURSIVE MatchFrom(_, _, _, _), TryRange(_, _, _, _, _, _, _), TryAlt(_, _, _, _, _)
\* Elements k.. of pat match s from position i: ends[j] is the position
\* after element k+j-1.
MatchFrom(pat, k, s, i) ==
    IF k > Len(pat) THEN [ok |-> TRUE, ends |-> <<>>]
    ELSE LET e == pat[k] IN
         CASE e.k = "lit" ->
                IF LitAt(s, i, e.lit, FALSE)
                THEN Then(i + Len(e.lit), MatchFrom(pat, k + 1, s, i + Len(e.lit)))
                ELSE NoMatch
           [] e.k = "end" ->
                IF AtEnd(s, i) THEN Then(i, MatchFrom(pat, k + 1, s, i)) ELSE NoMatch
           [] e.k = "rep" -> TryRange(pat, k, s, i, e.min, Run(s, i, e.cls), TRUE)
           [] e.k = "lazy" -> TryRange(pat, k, s, i, e.min, Run(s, i, e.cls), FALSE)
           [] e.k = "alt" -> TryAlt(pat, k, s, i, 1)

\* Element k taking n characters, for the first n of lo..hi with which the
\* rest matches: the greatest such n when greedy, the least when lazy.  The
\* range is searched a half at a time, in that order.
TryRange(pat, k, s, i, lo, hi, greedy) ==
    IF lo > hi THEN NoMatch
    ELSE IF lo = hi THEN Then(i + lo, MatchFrom(pat, k + 1, s, i + lo))
    ELSE LET mid == (lo + hi) \div 2
             low == TryRange(pat, k, s, i, lo, mid, greedy)
             high == TryRange(pat, k, s, i, mid + 1, hi, greedy)
         IN  IF greedy THEN (IF high.ok THEN high ELSE low)
             ELSE (IF low.ok THEN low ELSE high)

\* The first of the alternatives a.. of element k with which the rest matches.
TryAlt(pat, k, s, i, a) ==
    IF a > Len(pat[k].alts) THEN NoMatch
    ELSE LET l == pat[k].alts[a]
             r == IF l = ""
                  THEN IF AtEnd(s, i) THEN Then(i, MatchFrom(pat, k + 1, s, i))
                       ELSE NoMatch
                  ELSE IF LitAt(s, i, l, FALSE)
                       THEN Then(i + Len(l), MatchFrom(pat, k + 1, s, i + Len(l)))
                       ELSE NoMatch
         IN  IF r.ok THEN r ELSE TryAlt(pat, k, s, i, a + 1)

\* The leftmost position from i on at which pat matches s, 0 when none.
FirstMatch(pat, s, i) ==
    LET hits == {j \in i..(Len(s) + 1) : MatchFrom(pat, 1, s, j).ok}
    IN  IF hits = {} THEN 0 ELSE CHOOSE j \in hits : \A h \in hits : j <= h

\* re.search: the leftmost match of pat in s.
Search(pat, s) ==
    LET j == FirstMatch(pat, s, 1)
    IN  IF j = 0 THEN [ok |-> FALSE, from |-> 0, ends |-> <<>>]
        ELSE [ok |-> TRUE, from |-> j, ends |-> MatchFrom(pat, 1, s, j).ends]

RECURSIVE FindAll(_, _, _)
\* re.findall: the matches of pat in s from position i on, leftmost first and
\* not overlapping, each as [from, ends].
FindAll(pat, s, i) ==
    LET j == FirstMatch(pat, s, i)
    IN  IF j = 0 THEN <<>>
        ELSE LET r == MatchFrom(pat, 1, s, j)
                 end == r.ends[Len(pat)]
             IN  <<[from |-> j, ends |-> r.ends]>>
                 \o FindAll(pat, s, IF end = j THEN j + 1 ELSE end)

------------------------------------------------------------------------------
(* extract_roles_from_structured_blocks, lines 42-57.                      *)

LowerLetters == {LowerCase[i] : i \in 1..26}

\* The pattern of line 44 as the regex compiler reads it.  The source is a
\* raw string in which every backslash is doubled, so that "\\s*" is a
\* literal backslash followed by any number of the letter s, "\\d+" a
\* literal backslash followed by the letter d once or more, and "\\$" a
\* literal backslash followed by the anchor $.
RolePattern ==
    << LazyPlus(LowerLetters \cup {" "}),                       \* 1  role
       Lit("\\"), Star({"s"}), Lit("-"), Lit("\\"), Star({"s"}), \* 2-6
       Lit("Count:"), Lit("\\"), Star({"s"}),                    \* 7-9
       Lit("\\"), Plus({"d"}),                                   \* 10-11 count
       Lit("\\"), Star({"s"}), Lit("-"), Lit("\\"), Star({"s"}), \* 12-16
       Lit("Duration:"), Lit("\\"), Star({"s"}),                 \* 17-19
       Lit("\\"), Plus({"d"}),                                   \* 20-21 duration
       Lit("\\"), Star({"s"}), Lit("Days"),                      \* 22-24
       Lit("\\"), Star({"s"}), Lit("-"), Lit("\\"), Star({"s"}), \* 25-29
       Lit("Daily Rate:"), Lit("\\"), Star({"s"}),               \* 30-32
       Lit("\\"), End,                                           \* 33-34
       Lit("\\"), Plus({"d"}) >>                                 \* 35-36 rate

ValueError == -1

RECURSIVE DigitsValue(_)
DigitsValue(s) ==
    IF Len(s) = 0 THEN 0
    ELSE 10 * DigitsValue(SubSeq(s, 1, Len(s) - 1))
         + (CHOOSE d \in 1..10 : Digits[d] = CharAt(s, Len(s))) - 1

\* int(s) for the strings a group of the pattern can hold: the value of a
\* string of digits, ValueError for any other.
ParseInt(s) ==
    IF Len(s) > 0 /\ \A i \in 1..Len(s) : \E d \in 1..10 : Digits[d] = CharAt(s, i)
    THEN DigitsValue(s)
    ELSE ValueError

\* The row of lines 50-56 for one match m of RolePattern in text.
RoleRow(text, m) ==
    [ role          |-> Strip(SubSeq(text, m.from, m.ends[1] - 1), WhiteSpace),
      count         |-> ParseInt(SubSeq(text, m.ends[9], m.ends[11] - 1)),
      duration_days |-> ParseInt(SubSeq(text, m.ends[19], m.ends[21] - 1)),
      daily_rate    |-> ParseInt(SubSeq(text, m.ends[34], m.ends[36] - 1)),
      notes         |-> "" ]

extract_roles_from_structured_blocks(text) ==
    LET matches == FindAll(RolePattern, Lower(text), 1)
    IN  [i \in 1..Len(matches) |-> RoleRow(text, matches[i])]

------------------------------------------------------------------------------
(* suggest_roles_from_project, lines 60-78.                                *)

Row(r, c, d, rate) ==
    [role |-> r, count |-> c, duration_days |-> d, daily_rate |-> rate, notes |-> ""]

DrillingRoles ==
    << Row("Drilling Engineer", 2, 45, 1200),
       Row("Rig Worker", 10, 45, 500),
       Row("Safety Officer", 1, 30, 800) >>

MaintenanceRoles ==
    << Row("Technician", 5, 20, 600), Row("Supervisor", 1, 20, 900) >>

ProductionRoles ==
    << Row("Production Engineer", 2, 30, 1000), Row("Operator", 3, 30, 700) >>

\* suggest_roles_from_project without the text.lower() of line 61.
suggest_roles_case_sensitive(text) ==
    IF Contains(text, "offshore") /\ Contains(text, "drilling") THEN DrillingRoles
    ELSE IF Contains(text, "maintenance") THEN MaintenanceRoles
    ELSE IF Contains(text, "production") THEN ProductionRoles
    ELSE <<>>

suggest_roles_from_project(text) ==
    LET t == Lower(text)
    IN  IF Contains(t, "offshore") /\ Contains(t, "drilling") THEN DrillingRoles
        ELSE IF Contains(t, "maintenance") THEN MaintenanceRoles
        ELSE IF Contains(t, "production") THEN ProductionRoles
        ELSE <<>>

------------------------------------------------------------------------------
(* extract_proposal_requirements, lines 80-86.                             *)

\* The pattern of line 81, compiled with re.DOTALL | re.IGNORECASE.
RequirementsPattern ==
    << Lit("Proposal Requirements:"), Star(WhiteSpace),
       LazyStar(AnyChar),                                        \* 3  group 1
       Star(WhiteSpace),
       Alt(<<"Submission Deadline:", "Contact for Clarifications:", "">>) >>

RECURSIVE SelectSeqStr(_, _)
\* [f(line) for line in lines if line.strip()] of line 84
SelectSeqStr(lines, i) ==
    IF i > Len(lines) THEN <<>>
    ELSE (IF Strip(lines[i], WhiteSpace) # ""
          THEN <<Strip(Strip(lines[i], {"-", Bullet, " "}), WhiteSpace)>>
          ELSE <<>>)
         \o SelectSeqStr(lines, i + 1)

extract_proposal_requirements(text) ==
    LET match == Search(RequirementsPattern, Lower(text))
    IN  IF match.ok
        THEN LET raw == Strip(SubSeq(text, match.ends[2], match.ends[3] - 1),
                              WhiteSpace)
             IN  SelectSeqStr(Split(raw, "\n"), 1)
        ELSE <<>>

------------------------------------------------------------------------------
(* answer_proposal_question, lines 88-94, and the part of difflib it       *)
(* calls: get_close_matches(word, possibilities, n=1, cutoff=0.4).         *)

\* The characters in the order of their code points (Bullet, U+2022, last).
CodeOrder ==
    "\t\n\f\r $-0123456789:ABCDEFGHIJKLMNOPQRSTUVWXYZ\\abcdefghijklmnopqrstuvwxyz*"

Ord(c) == Find(CodeOrder, c, 1, FALSE)

RECURSIVE StrLess(_, _)
\* Python's x < y on strings
StrLess(x, y) ==
    IF Len(y) = 0 THEN FALSE
    ELSE IF Len(x) = 0 THEN TRUE
    ELSE IF CharAt(x, 1) = CharAt(y, 1)
         THEN StrLess(SubSeq(x, 2, Len(x)), SubSeq(y, 2, Len(y)))
         ELSE Ord(CharAt(x, 1)) < Ord(CharAt(y, 1))

RECURSIVE CommonLen(_, _, _, _)
\* The length of the longest common run of a from i and b from j.
CommonLen(a, i, b, j) ==
    IF i <= Len(a) /\ j <= Len(b) /\ CharAt(a, i) = CharAt(b, j)
    THEN 1 + CommonLen(a, i + 1, b, j + 1)
    ELSE 0

\* SequenceMatcher.find_longest_match: the longest matching block, of those
\* the one that starts earliest in a, of those the one earliest in b.  (No
\* character is junk: autojunk only applies to a b of 200 characters or more.)
LongestMatch(a, b) ==
    LET blocks == {<<i, j, CommonLen(a, i, b, j)>> : i \in 1..Len(a), j \in 1..Len(b)}
        Better(x, y) == \/ x[3] > y[3]
                        \/ x[3] = y[3] /\ x[1] < y[1]
                        \/ x[3] = y[3] /\ x[1] = y[1] /\ x[2] <= y[2]
    IN  IF blocks = {} THEN <<1, 1, 0>>
        ELSE CHOOSE x \in blocks : \A y \in blocks : Better(x, y)

RECURSIVE MatchedChars(_, _)
\* The sum of the sizes of SequenceMatcher.get_matching_blocks().
MatchedChars(a, b) ==
    LET m == LongestMatch(a, b)
    IN  IF m[3] = 0 THEN 0
        ELSE m[3]
             + MatchedChars(SubSeq(a, 1, m[1] - 1), SubSeq(b, 1, m[2] - 1))
             + MatchedChars(SubSeq(a, m[1] + m[3], Len(a)), SubSeq(b, m[2] + m[3], Len(b)))

\* SequenceMatcher.ratio() is 2.0 * matches / length, and 1.0 when both
\* strings are empty; kept as the fraction <<numerator, denominator>>.
Ratio(a, b) ==
    IF Len(a) + Len(b) = 0 THEN <<1, 1>>
    ELSE <<2 * MatchedChars(a, b), Len(a) + Len(b)>>

\* r >= 0.4, the cutoff of line 89 (0.4 = 4/10)
CutoffNum == 4
CutoffDen == 10
\* The cutoff taken strictly: r > 0.4.
AboveCutoff(r) == r[1] * CutoffDen > CutoffNum * r[2]

AtLeastCutoff(r) == r[1] * CutoffDen >= CutoffNum * r[2]

RatioLess(r1, r2) == r1[1] * r2[2] < r2[1] * r1[2]

RECURSIVE Ratios(_, _, _)
\* The ratio of each of the possibilities i.. to word, each computed once.
Ratios(word, possibilities, i) ==
    IF i > Len(possibilities) THEN <<>>
    ELSE <<Ratio(possibilities[i], word)>> \o Ratios(word, possibilities, i + 1)

\* difflib.get_close_matches(word, possibilities, n=1, cutoff=0.4): the
\* index of the possibility returned, 0 when the list is empty.
\* heapq.nlargest takes the greatest (score, x) pair.
get_close_matches(word, possibilities) ==
    LET scores == Ratios(word, possibilities, 1)
        close == {i \in 1..Len(possibilities) : AtLeastCutoff(scores[i])}
        PairLeq(i, j) ==
            \/ RatioLess(scores[i], scores[j])
            \/ /\ ~RatioLess(scores[j], scores[i])
               /\ ~StrLess(possibilities[j], possibilities[i])
    IN  IF close = {} THEN 0
        ELSE CHOOSE i \in close : \A j \in close : PairLeq(j, i)

Fallback == "This requirement will be addressed in the final submission per project scope."

answer_proposal_question(r, faq) ==
    LET questions == [i \in 1..Len(faq) |-> Lower(faq[i].question)]
        m == get_close_matches(Lower(r), questions)
    IN  IF m # 0
        THEN LET match == questions[m]
                 rows == {i \in 1..Len(faq) : questions[i] = match}
             IN  faq[CHOOSE i \in rows : \A j \in rows : i <= j].answer
        ELSE Fallback

------------------------------------------------------------------------------
(* The arithmetic of the cost columns.  pandas holds a column of integers  *)
(* as 64-bit signed integers, and the products of lines 120 and 270 and    *)
(* the sums of lines 155 and 272 are taken in that width, silently modulo  *)
(* 2^64.  A 64-bit value is kept as its 8 bytes, least significant first;  *)
(* an exact natural number as its bytes, however many.                     *)

RECURSIVE ToBytes(_, _)
\* The k low bytes of the natural number n.
ToBytes(n, k) == IF k = 0 THEN <<>> ELSE <<n % 256>> \o ToBytes(n \div 256, k - 1)

\* The int64 cell pandas makes of a non-negative Python int below 2^31.
ToInt64(n) == ToBytes(n, 8)

Byte(a, i) == IF i >= 1 /\ i <= Len(a) THEN a[i] ELSE 0

RECURSIVE ColumnSum(_, _, _, _)
\* The sum of a[i] * b[k + 1 - i] for i in 1..n
ColumnSum(a, b, k, n) ==
    IF n = 0 THEN 0 ELSE Byte(a, n) * Byte(b, k + 1 - n) + ColumnSum(a, b, k, n - 1)

RECURSIVE MulBytes(_, _, _, _, _)
\* Bytes k..len of the product of a and b, carry coming in.
MulBytes(a, b, k, len, carry) ==
    IF k > len THEN <<>>
    ELSE LET sm == carry + ColumnSum(a, b, k, Len(a))
         IN  <<sm % 256>> \o MulBytes(a, b, k + 1, len, sm \div 256)

RECURSIVE AddBytes(_, _, _, _, _)
AddBytes(a, b, k, len, carry) ==
    IF k > len THEN <<>>
    ELSE LET sm == carry + Byte(a, k) + Byte(b, k)
         IN  <<sm % 256>> \o AddBytes(a, b, k + 1, len, sm \div 256)

\* int64 * int64 and int64 + int64 as numpy computes them: the low 8 bytes.
Mul64(a, b) == MulBytes(a, b, 1, 8, 0)
Add64(a, b) == AddBytes(a, b, 1, 8, 0)

\* df["total_cost"] = df["count"] * df["duration_days"] * df["daily_rate"]
total_cost(row) ==
    Mul64(Mul64(ToInt64(row.count), ToInt64(row.duration_days)),
          ToInt64(row.daily_rate))

\* A DataFrame of role rows with the total_cost column added (lines 119-120
\* and 268-270).
WithTotalCost(rows) ==
    [i \in 1..Len(rows) |->
        [role |-> rows[i].role, count |-> rows[i].count,
         duration_days |-> rows[i].duration_days,
         daily_rate |-> rows[i].daily_rate, notes |-> rows[i].notes,
         total_cost |-> total_cost(rows[i])]]

\* No total on the screen: the variable total is not bound.
NoTotal == <<>>

RECURSIVE SumTotalCost(_, _)
\* df["total_cost"].sum() over the first n rows
SumTotalCost(df, n) ==
    IF n = 0 THEN ToInt64(0) ELSE Add64(SumTotalCost(df, n - 1), df[n].total_cost)

------------------------------------------------------------------------------
(* load_faq_from_snowflake, lines 21-40, under @st.cache_data(ttl=600).    *)

\* ttl=600 of line 21, in seconds
TTL == 600

NoMessage == {}

\* A Python name that is not bound, and one bound to v.
Unassigned == [assigned |-> FALSE, value |-> <<>>]
Assigned(v) == [assigned |-> TRUE, value |-> v]

\* st.error of line 39
FaqError == "Failed to load chatbot Q&A"

\* The body of the function: the rows of chatbot_faq, or, when connecting
\* or querying raises, the empty DataFrame of line 40.
FetchFaq(st) == IF st.up THEN st.faq ELSE <<>>

EmptyCache == [valid |-> FALSE, at |-> 0, value |-> <<>>]

\* A cache that keeps no empty DataFrame.
CacheHitUnlessEmpty(c, t) == c.valid /\ c.value # <<>> /\ t - c.at < TTL

\* st.cache_data serves the stored value until ttl seconds have passed
\* since it was stored.
CacheHit(c, t) == c.valid /\ t - c.at < TTL

\* One call: [contacted, result, cache], the cache as the call leaves it.
load_faq_from_snowflake(c, t, st) ==
    IF CacheHit(c, t)
    THEN [contacted |-> FALSE, result |-> c.value, cache |-> c]
    ELSE [contacted |-> TRUE, result |-> FetchFaq(st),
          cache |-> [valid |-> TRUE, at |-> t, value |-> FetchFaq(st)]]

\* No fetch of the store so far.
NoFetch == [any |-> FALSE, at |-> 0, value |-> <<>>]

NoCall ==
    [made |-> FALSE, contacted |-> FALSE, failed |-> FALSE, result |-> <<>>,
     at |-> 0, before |-> NoFetch, after |-> NoFetch]

\* What a call at time t leaves in last_call: whether it contacted the
\* store, whether the fetch failed, what it returned, and the latest fetch
\* of the store before and after it.
CallRecord(c, t, st, prev) ==
    LET r == load_faq_from_snowflake(c, t, st)
    IN  [made |-> TRUE, contacted |-> r.contacted,
         failed |-> r.contacted /\ ~st.up, result |-> r.result, at |-> t,
         before |-> prev.after,
         after |-> IF r.contacted
                   THEN [any |-> TRUE, at |-> t, value |-> r.result]
                   ELSE prev.after]

------------------------------------------------------------------------------
(* The sidebar assistant: "Generate Proposal Summary", lines 107-173.      *)

\* How many fragments an uploaded document is made of, at most.
MaxFrags == 3

\* The pieces the documents of the model are made of.
Fragments ==
    { "Driller - Count: 3 - Duration: 10 Days - Daily Rate: $500",
      "offshore ", "Drilling ", "maintenance", "production",
      "\n", "Proposal Requirements:", "- x", "Submission Deadline:" }

\* The rows of chatbot_faq in the model.
FaqRows ==
    << [question |-> "X", answer |-> "answer 1"],
       [question |-> "Safety plan", answer |-> "answer 2"] >>

Init ==
    /\ pc = "l108"
    /\ extracted_text \in Strings(Fragments, MaxFrags)
    /\ inline_roles = <<>>
    /\ roles_data = <<>>
    /\ proposal_reqs = Unassigned
    /\ suggest_calls = 0
    /\ suggested = <<>>
    /\ df_roles = <<>>
    /\ total = NoTotal
    /\ responses = <<>>
    /\ req_i = 1
    /\ store = [up |-> TRUE, faq |-> FaqRows, roles |-> <<>>]
    /\ cache = EmptyCache
    /\ now = 0
    /\ last_call = NoCall
    /\ ticks = 0
    /\ faq_df = <<>>
    /\ req = ""
    /\ answer = ""
    /\ page = "Dashboard"
    /\ page_df = Unassigned
    /\ message = NoMessage
    /\ read_failed = FALSE

\* Line 108.
ExtractInline ==
    /\ pc = "l108"
    /\ inline_roles' = extract_roles_from_structured_blocks(extracted_text)
    /\ roles_data' = inline_roles'
    /\ pc' = IF \E i \in 1..Len(inline_roles') :
                   ValueError \in {inline_roles'[i].count,
                                   inline_roles'[i].duration_days,
                                   inline_roles'[i].daily_rate}
             THEN "ValueError" ELSE "l109"
    /\ UNCHANGED <<extracted_text, proposal_reqs, suggest_calls, suggested,
                   df_roles, total, responses, req_i, store, cache, now,
                   last_call, ticks, faq_df, req, answer, page, page_df, message, read_failed>>

\* Lines 109-112 with the assignment of line 112 left out.
InferRolesWithoutRequirements ==
    /\ pc = "l109"
    /\ IF roles_data = <<>>
       THEN /\ roles_data' = suggest_roles_from_project(extracted_text)
            /\ suggested' = roles_data'
            /\ suggest_calls' = suggest_calls + 1
       ELSE UNCHANGED <<roles_data, suggested, suggest_calls>>
    /\ pc' = "l114"
    /\ UNCHANGED <<extracted_text, inline_roles, proposal_reqs, df_roles, total,
                   responses, req_i, store, cache, now, last_call, ticks,
                   faq_df, req, answer, page, page_df, message, read_failed>>

\* Lines 109-112.
InferRoles ==
    /\ pc = "l109"
    /\ IF roles_data = <<>>
       THEN /\ roles_data' = suggest_roles_from_project(extracted_text)
            /\ suggested' = roles_data'
            /\ suggest_calls' = suggest_calls + 1
            /\ proposal_reqs' = Assigned(extract_proposal_requirements(extracted_text))
       ELSE UNCHANGED <<roles_data, suggested, suggest_calls, proposal_reqs>>
    /\ pc' = "l114"
    /\ UNCHANGED <<extracted_text, inline_roles, df_roles, total, responses,
                   req_i, store, cache, now, last_call, ticks, faq_df, req,
                   answer, page, page_df, message, read_failed>>

\* Lines 114-116 without the test of line 114: the rows looked up are added
\* to the rows already there.
InferRolesMerging ==
    /\ pc = "l114"
    /\ roles_data' = roles_data \o suggest_roles_from_project(extracted_text)
    /\ suggested' = suggest_roles_from_project(extracted_text)
    /\ suggest_calls' = suggest_calls + 1
    /\ pc' = "l118"
    /\ UNCHANGED <<extracted_text, inline_roles, proposal_reqs, df_roles, total,
                   responses, req_i, store, cache, now, last_call, ticks,
                   faq_df, req, answer, page, page_df, message, read_failed>>

\* Lines 114-116.
InferRolesAgain ==
    /\ pc = "l114"
    /\ IF roles_data = <<>>
       THEN /\ roles_data' = suggest_roles_from_project(extracted_text)
            /\ suggested' = roles_data'
            /\ suggest_calls' = suggest_calls + 1
       ELSE UNCHANGED <<roles_data, suggested, suggest_calls>>
    /\ pc' = "l118"
    /\ UNCHANGED <<extracted_text, inline_roles, proposal_reqs, df_roles, total,
                   responses, req_i, store, cache, now, last_call, ticks,
                   faq_df, req, answer, page, page_df, message, read_failed>>

\* Lines 118-155: with no roles the handler ends having written nothing.
BuildSummary ==
    /\ pc = "l118"
    /\ IF roles_data # <<>>
       THEN /\ df_roles' = WithTotalCost(roles_data)
            /\ pc' = "l157"
       ELSE /\ pc' = "done"
            /\ UNCHANGED df_roles
    /\ UNCHANGED <<extracted_text, inline_roles, roles_data, proposal_reqs,
                   suggest_calls, suggested, total, responses, req_i, store,
                   cache, now, last_call, ticks, faq_df, req, answer, page,
                   page_df, message, read_failed>>

\* Line 155: the total the summary document reports.
SummaryTotal == SumTotalCost(df_roles, Len(df_roles))

\* Line 157: reading a proposal_reqs that was never assigned raises NameError.
CheckRequirements ==
    /\ pc = "l157"
    /\ pc' = IF ~proposal_reqs.assigned THEN "NameError" ELSE "l159"
    /\ UNCHANGED <<extracted_text, inline_roles, roles_data, proposal_reqs,
                   suggest_calls, suggested, df_roles, total, responses, req_i,
                   store, cache, now, last_call, ticks, faq_df, req, answer,
                   page, page_df, message, read_failed>>

\* Lines 159-161, one turn of the loop.
RespondToRequirement ==
    /\ pc = "l159"
    /\ req_i <= Len(proposal_reqs.value)
    /\ LET call == load_faq_from_snowflake(cache, now, store)
       IN  /\ cache' = call.cache
           /\ last_call' = CallRecord(cache, now, store, last_call)
           /\ faq_df' = call.result
           /\ req' = proposal_reqs.value[req_i]
           /\ answer' = answer_proposal_question(req', faq_df')
           /\ responses' = Append(responses, [req |-> req', answer |-> answer'])
           /\ message' = IF call.contacted /\ ~store.up
                         THEN message \cup {FaqError} ELSE message
    /\ req_i' = req_i + 1
    /\ UNCHANGED <<pc, extracted_text, inline_roles, roles_data, proposal_reqs,
                   suggest_calls, suggested, df_roles, total, store, now, ticks,
                   page, page_df, read_failed>>

\* Lines 163-173: the document is saved and offered for download.
FinishSummary ==
    /\ pc = "l159"
    /\ req_i > Len(proposal_reqs.value)
    /\ pc' = "done"
    /\ UNCHANGED <<extracted_text, inline_roles, roles_data, proposal_reqs,
                   suggest_calls, suggested, df_roles, total, responses, req_i,
                   store, cache, now, last_call, ticks, faq_df, req, answer,
                   page, page_df, message, read_failed>>

Next ==
    \/ ExtractInline
    \/ InferRoles
    \/ InferRolesAgain
    \/ BuildSummary
    \/ CheckRequirements
    \/ RespondToRequirement
    \/ FinishSummary

Spec == Init /\ [][Next]_vars

------------------------------------------------------------------------------
(* answer_proposal_question on its own: a requirement and a FAQ corpus are *)
(* drawn, and the function is applied to them.                             *)

\* The longest requirement, the longest FAQ question, the most FAQ rows.
MaxReqLen == 3
MaxQuestionLen == 2
MaxFaq == 2

\* The characters the requirements and questions are made of.
AnswerChars == {"a", "B"}

\* The FAQ corpora of n rows: row i holds the answer "answer i".
RECURSIVE Corpora(_)
Corpora(n) ==
    IF n = 0 THEN {<<>>}
    ELSE {Append(f, [question |-> q, answer |-> "answer " \o ToString(Len(f) + 1)]) :
             f \in Corpora(n - 1), q \in Strings(AnswerChars, MaxQuestionLen)}

InitAnswer ==
    /\ pc = "ask"
    /\ req \in Strings(AnswerChars, MaxReqLen)
    /\ faq_df \in UNION {Corpora(n) : n \in 0..MaxFaq}
    /\ answer = ""
    /\ extracted_text = ""
    /\ inline_roles = <<>>
    /\ roles_data = <<>>
    /\ proposal_reqs = Unassigned
    /\ suggest_calls = 0
    /\ suggested = <<>>
    /\ df_roles = <<>>
    /\ total = NoTotal
    /\ responses = <<>>
    /\ req_i = 1
    /\ store = [up |-> TRUE, faq |-> FaqRows, roles |-> <<>>]
    /\ cache = EmptyCache
    /\ now = 0
    /\ last_call = NoCall
    /\ ticks = 0
    /\ page = "Dashboard"
    /\ page_df = Unassigned
    /\ message = NoMessage
    /\ read_failed = FALSE

\* Line 161: answer_proposal_question(req, faq).
AnswerRequirement ==
    /\ pc = "ask"
    /\ answer' = answer_proposal_question(req, faq_df)
    /\ pc' = "answered"
    /\ UNCHANGED <<extracted_text, inline_roles, roles_data, proposal_reqs,
                   suggest_calls, suggested, df_roles, total, responses, req_i,
                   store, cache, now, last_call, ticks, faq_df, req, page,
                   page_df, message, read_failed>>

NextAnswer == AnswerRequirement

SpecAnswer == InitAnswer /\ [][NextAnswer]_vars

------------------------------------------------------------------------------
(* extract_proposal_requirements on its own.                               *)

\* How many pieces a text is made of, at most.
MaxReqFrags == 4

ReqFragments ==
    { "Proposal Requirements:", "Submission Deadline:",
      "Contact for Clarifications:", "\n", " ", "-", "x" }

InitReqs ==
    /\ pc = "extract"
    /\ extracted_text \in Strings(ReqFragments, MaxReqFrags)
    /\ proposal_reqs = Unassigned
    /\ inline_roles = <<>>
    /\ roles_data = <<>>
    /\ suggest_calls = 0
    /\ suggested = <<>>
    /\ df_roles = <<>>
    /\ total = NoTotal
    /\ responses = <<>>
    /\ req_i = 1
    /\ store = [up |-> TRUE, faq |-> FaqRows, roles |-> <<>>]
    /\ cache = EmptyCache
    /\ now = 0
    /\ last_call = NoCall
    /\ ticks = 0
    /\ faq_df = <<>>
    /\ req = ""
    /\ answer = ""
    /\ page = "Dashboard"
    /\ page_df = Unassigned
    /\ message = NoMessage
    /\ read_failed = FALSE

\* Line 112: proposal_reqs = extract_proposal_requirements(extracted_text).
ExtractRequirements ==
    /\ pc = "extract"
    /\ proposal_reqs' = Assigned(extract_proposal_requirements(extracted_text))
    /\ pc' = "extracted"
    /\ UNCHANGED <<extracted_text, inline_roles, roles_data, suggest_calls,
                   suggested, df_roles, total, responses, req_i, store, cache,
                   now, last_call, ticks, faq_df, req, answer, page, page_df,
                   message, read_failed>>

NextReqs == ExtractRequirements

SpecReqs == InitReqs /\ [][NextReqs]_vars

------------------------------------------------------------------------------
(* load_faq_from_snowflake called again and again while the clock runs     *)
(* and the store goes down, comes back and is edited.                      *)

\* How many times the clock is advanced, at most.
MaxTicks == 3

\* The seconds the clock advances by in one step.
TickSteps == {1, 599, 601}

\* What chatbot_faq holds after an edit.
EditedFaqRows == << [question |-> "X", answer |-> "answer 3"] >>

FaqTables == {FaqRows, EditedFaqRows}

InitCache ==
    /\ pc = "idle"
    /\ store \in [up : BOOLEAN, faq : {FaqRows}, roles : {<<>>}]
    /\ cache = EmptyCache
    /\ now = 0
    /\ last_call = NoCall
    /\ ticks = 0
    /\ faq_df = <<>>
    /\ message = NoMessage
    /\ read_failed = FALSE
    /\ extracted_text = ""
    /\ inline_roles = <<>>
    /\ roles_data = <<>>
    /\ proposal_reqs = Unassigned
    /\ suggest_calls = 0
    /\ suggested = <<>>
    /\ df_roles = <<>>
    /\ total = NoTotal
    /\ responses = <<>>
    /\ req_i = 1
    /\ req = ""
    /\ answer = ""
    /\ page = "Dashboard"
    /\ page_df = Unassigned

\* Line 161: load_faq_from_snowflake() through st.cache_data.
CallLoadFaq ==
    /\ LET call == load_faq_from_snowflake(cache, now, store)
       IN  /\ cache' = call.cache
           /\ last_call' = CallRecord(cache, now, store, last_call)
           /\ faq_df' = call.result
           /\ message' = IF call.contacted /\ ~store.up
                         THEN {FaqError} ELSE NoMessage
    /\ UNCHANGED <<pc, extracted_text, inline_roles, roles_data, proposal_reqs,
                   suggest_calls, suggested, df_roles, total, responses, req_i,
                   store, now, ticks, req, answer, page, page_df, read_failed>>

\* Time passes.
Tick ==
    /\ ticks < MaxTicks
    /\ \E d \in TickSteps : now' = now + d
    /\ ticks' = ticks + 1
    /\ UNCHANGED <<pc, extracted_text, inline_roles, roles_data, proposal_reqs,
                   suggest_calls, suggested, df_roles, total, responses, req_i,
                   store, cache, last_call, faq_df, req, answer, page, page_df,
                   message, read_failed>>

\* The store goes down or comes back: snowflake.connector.connect raises
\* or not.
StoreOutage ==
    /\ store' = [store EXCEPT !.up = ~store.up]
    /\ UNCHANGED <<pc, extracted_text, inline_roles, roles_data, proposal_reqs,
                   suggest_calls, suggested, df_roles, total, responses, req_i,
                   cache, now, last_call, ticks, faq_df, req, answer, page,
                   page_df, message, read_failed>>

\* Somebody edits the table chatbot_faq.
FaqEdited ==
    /\ \E f \in FaqTables \ {store.faq} : store' = [store EXCEPT !.faq = f]
    /\ UNCHANGED <<pc, extracted_text, inline_roles, roles_data, proposal_reqs,
                   suggest_calls, suggested, df_roles, total, responses, req_i,
                   cache, now, last_call, ticks, faq_df, req, answer, page,
                   page_df, message, read_failed>>

NextCache ==
    \/ CallLoadFaq
    \/ Tick
    \/ StoreOutage
    \/ FaqEdited

SpecCache == InitCache /\ [][NextCache]_vars

------------------------------------------------------------------------------
(* The pages, lines 176-299, next to the sidebar assistant.                *)

\* How many rows the table EXTRACTED_LABOR_ROLES holds, at most.
MaxRows == 2

\* The rows the table is made of.
RowPool ==
    { Row("Driller", 3, 10, 500),
      Row("Crew", 2097152, 2097152, 2097152) }

RECURSIVE RoleTables(_)
\* The tables of at most n rows.
RoleTables(n) ==
    IF n = 0 THEN { <<>> }
    ELSE RoleTables(n - 1)
         \cup {Append(t, r) : t \in RoleTables(n - 1), r \in RowPool}

\* The document uploaded in the sidebar.
PageTexts == { "offshore Drilling \nProposal Requirements:- x" }

\* Lines 225-231: the rows shown when the read raises.
DefaultRoles ==
    << [role |-> "Drilling Engineer", count |-> 3, duration_days |-> 30,
        daily_rate |-> 1000, notes |-> "12-hr shifts"],
       [role |-> "Rig Worker", count |-> 20, duration_days |-> 45,
        daily_rate |-> 500, notes |-> "2 teams rotating"],
       [role |-> "Safety Officer", count |-> 2, duration_days |-> 30,
        daily_rate |-> 700, notes |-> "Offshore only"] >>

InitPages ==
    /\ pc = "l108"
    /\ extracted_text \in PageTexts
    /\ store \in [up : BOOLEAN, faq : {FaqRows}, roles : RoleTables(MaxRows)]
    /\ page = "Dashboard"
    /\ page_df = Unassigned
    /\ total = NoTotal
    /\ message = NoMessage
    /\ read_failed = FALSE
    /\ inline_roles = <<>>
    /\ roles_data = <<>>
    /\ proposal_reqs = Unassigned
    /\ suggest_calls = 0
    /\ suggested = <<>>
    /\ df_roles = <<>>
    /\ responses = <<>>
    /\ req_i = 1
    /\ cache = EmptyCache
    /\ now = 0
    /\ last_call = NoCall
    /\ ticks = 0
    /\ faq_df = <<>>
    /\ req = ""
    /\ answer = ""

\* The page script runs when the sidebar has nothing under way.
SidebarAtRest == pc \in {"l108", "done"}

\* Lines 176-206: the Dashboard and Upload RFP pages read nothing.
StaticPage ==
    /\ SidebarAtRest
    /\ \E p \in {"Dashboard", "Upload RFP"} : page' = p
    /\ page_df' = Unassigned
    /\ total' = NoTotal
    /\ message' = NoMessage
    /\ read_failed' = FALSE
    /\ UNCHANGED <<pc, extracted_text, inline_roles, roles_data, proposal_reqs,
                   suggest_calls, suggested, df_roles, responses, req_i, store,
                   cache, now, last_call, ticks, faq_df, req, answer>>

\* Lines 212-231: df_existing.
ReadExisting(st) == IF st.up THEN st.roles ELSE DefaultRoles

\* Lines 209-232 with df_existing left empty when the read raises.
ExtractLaborRolesEmptyOnFailure ==
    /\ SidebarAtRest
    /\ page' = "Extract Labor Roles"
    /\ page_df' = Assigned(IF store.up THEN store.roles ELSE <<>>)
    /\ read_failed' = ~store.up
    /\ total' = NoTotal
    /\ message' = NoMessage
    /\ UNCHANGED <<pc, extracted_text, inline_roles, roles_data, proposal_reqs,
                   suggest_calls, suggested, df_roles, responses, req_i, store,
                   cache, now, last_call, ticks, faq_df, req, answer>>

\* Lines 209-232: the Extract Labor Roles page, "Save to Snowflake" not
\* pressed.
ExtractLaborRoles ==
    /\ SidebarAtRest
    /\ page' = "Extract Labor Roles"
    /\ page_df' = Assigned(ReadExisting(store))
    /\ read_failed' = ~store.up
    /\ total' = NoTotal
    /\ message' = NoMessage
    /\ UNCHANGED <<pc, extracted_text, inline_roles, roles_data, proposal_reqs,
                   suggest_calls, suggested, df_roles, responses, req_i, store,
                   cache, now, last_call, ticks, faq_df, req, answer>>

\* Lines 209-252: the page run with "Save to Snowflake" pressed, the rows
\* in the editor as they were shown or edited.
SaveToSnowflake ==
    /\ SidebarAtRest
    /\ page = "Extract Labor Roles"
    /\ page' = page
    /\ page_df' = Assigned(ReadExisting(store))
    /\ read_failed' = ~store.up
    /\ total' = NoTotal
    /\ \E edited_roles \in (RoleTables(MaxRows) \cup {page_df.value}) \ { <<>> } :
           IF store.up
           THEN /\ store' = [store EXCEPT !.roles = edited_roles]
                /\ message' = {"Saved"}
           ELSE /\ store' = store
                /\ message' = {"Snowflake Write Error"}
    /\ UNCHANGED <<pc, extracted_text, inline_roles, roles_data, proposal_reqs,
                   suggest_calls, suggested, df_roles, responses, req_i, cache,
                   now, last_call, ticks, faq_df, req, answer>>

\* Lines 255-299: the Estimate Labor Cost page.
EstimateLaborCost ==
    /\ SidebarAtRest
    /\ page' = "Estimate Labor Cost"
    /\ read_failed' = ~store.up
    /\ IF store.up
       THEN /\ page_df' = Assigned(WithTotalCost(store.roles))
            /\ total' = SumTotalCost(page_df'.value, Len(page_df'.value))
            /\ message' = NoMessage
       ELSE /\ page_df' = Unassigned
            /\ total' = NoTotal
            /\ message' = {"Connection failed"}
    /\ UNCHANGED <<pc, extracted_text, inline_roles, roles_data, proposal_reqs,
                   suggest_calls, suggested, df_roles, responses, req_i, store,
                   cache, now, last_call, ticks, faq_df, req, answer>>

NextPages ==
    \/ ExtractInline
    \/ InferRoles
    \/ InferRolesAgain
    \/ BuildSummary
    \/ CheckRequirements
    \/ RespondToRequirement
    \/ FinishSummary
    \/ StaticPage
    \/ ExtractLaborRoles
    \/ SaveToSnowflake
    \/ EstimateLaborCost
    \/ StoreOutage

SpecPages == InitPages /\ [][NextPages]_vars

------------------------------------------------------------------------------
(* The claims about summary generation, checked under Spec.                *)

CatalogKeywords == {"drilling", "maintenance", "production"}

KeywordRoles(k) ==
    CASE k = "drilling" -> DrillingRoles
      [] k = "maintenance" -> MaintenanceRoles
      [] k = "production" -> ProductionRoles

HasKeyword(k) == Contains(Lower(extracted_text), k)

\* C1 as stated: a text that contains "drilling", "maintenance" or
\* "production" in any case is resolved by suggest_roles_from_project to a
\* keyword it contains, whose rows, never none, are returned.
C1_AnyKeywordResolves ==
    (suggest_calls > 0 /\ \E k \in CatalogKeywords : HasKeyword(k))
        => /\ suggested # <<>>
           /\ \E k \in CatalogKeywords : HasKeyword(k) /\ suggested = KeywordRoles(k)

\* C1 amended: a text that contains "maintenance" or "production", or
\* "drilling" together with "offshore", in any case, is resolved to a keyword
\* it contains (to "drilling" only with "offshore"), whose rows, never none,
\* are returned.
C1_KeywordResolves ==
    (/\ suggest_calls > 0
     /\ \/ HasKeyword("maintenance")
        \/ HasKeyword("production")
        \/ HasKeyword("drilling") /\ HasKeyword("offshore"))
        => /\ suggested # <<>>
           /\ \E k \in CatalogKeywords :
                 /\ HasKeyword(k)
                 /\ k = "drilling" => HasKeyword("offshore")
                 /\ suggested = KeywordRoles(k)

\* A text with "Drilling" and "offshore" was resolved to the drilling rows.
C1_Witness ==
    /\ suggest_calls > 0
    /\ Contains(extracted_text, "Drilling") /\ HasKeyword("offshore")
    /\ suggested = DrillingRoles

DrillerLine == "Driller - Count: 3 - Duration: 10 Days - Daily Rate: $500"

\* C2 as stated: the text "Driller - Count: 3 - Duration: 10 Days - Daily
\* Rate: $500" yields exactly one inline row, Driller, 3, 10, 500, and no
\* keyword lookup is made for it.
C2_DrillerRowExtracted ==
    (pc # "l108" /\ extracted_text = DrillerLine)
        => /\ inline_roles = <<Row("Driller", 3, 10, 500)>>
           /\ suggest_calls = 0

\* C3 as stated: when the handler is done, the document holds one
\* (requirement, answer) pair for each requirement of the text, in order,
\* whatever roles were resolved.
C3_OnePairPerRequirement ==
    LET reqs == extract_proposal_requirements(extracted_text)
    IN  (pc = "done" /\ reqs # <<>>)
            => /\ Len(responses) = Len(reqs)
               /\ \A i \in 1..Len(reqs) : responses[i].req = reqs[i]

\* The rows the cost tables were built from.
RowsUsed == [i \in 1..Len(df_roles) |-> Row(df_roles[i].role, df_roles[i].count,
                df_roles[i].duration_days, df_roles[i].daily_rate)]

------------------------------------------------------------------------------
(* The claim about answer_proposal_question, checked under SpecAnswer.     *)

RECURSIVE Scores(_)
\* The similarity of the requirement and each FAQ question from row i on,
\* both in lower case.
Scores(i) ==
    IF i > Len(faq_df) THEN <<>>
    ELSE <<Ratio(Lower(faq_df[i].question), Lower(req))>> \o Scores(i + 1)

\* Row i is one whose question is most similar to the requirement.
Best(sc, i) == \A j \in 1..Len(sc) : ~RatioLess(sc[i], sc[j])

\* Exactly 0.4.
AtCutoff(r) == r[1] * 10 = 4 * r[2]
ClearsCutoff(r) == r[1] * 10 >= 4 * r[2]

\* C6: the answer returned is that of a row whose question is most similar
\* to the requirement when that similarity is 0.4 or more, and the fixed
\* fallback string otherwise, as it is for an empty corpus.
C6_AnswerIffCutoff ==
    pc = "answered"
        => LET sc == Scores(1)
           IN  IF \E i \in 1..Len(sc) : ClearsCutoff(sc[i])
               THEN /\ answer # Fallback
                    /\ \E i \in 1..Len(sc) : Best(sc, i) /\ answer = faq_df[i].answer
               ELSE answer = Fallback

\* A requirement whose best similarity is exactly 0.4 got the stored answer
\* of the second row.
C6_Witness ==
    /\ pc = "answered"
    /\ Len(faq_df) = 2
    /\ Best(Scores(1), 2) /\ AtCutoff(Scores(1)[2]) /\ ~Best(Scores(1), 1)
    /\ answer = "answer 2"

------------------------------------------------------------------------------
(* The claim about extract_proposal_requirements, checked under SpecReqs.  *)

\* The first of the positions in ps that is not 0, 0 when all are.
FirstOf(ps) ==
    IF ps \subseteq {0} THEN 0
    ELSE CHOOSE p \in ps \ {0} : \A r \in ps \ {0} : p <= r

\* The part of the text between the first "Proposal Requirements:" and the
\* first "Submission Deadline:" or "Contact for Clarifications:" after it,
\* or the end of the text.
RequirementsSection ==
    LET marker == "Proposal Requirements:"
        from == Find(extracted_text, marker, 1, TRUE) + Len(marker)
        to == FirstOf({Find(extracted_text, "Submission Deadline:", from, TRUE),
                       Find(extracted_text, "Contact for Clarifications:", from, TRUE)})
    IN  SubSeq(extracted_text, from,
               IF to = 0 THEN Len(extracted_text) ELSE to - 1)

\* A line without the whitespace around it and the bullet markers, and the
\* whitespace after them, that lead it.
WithoutLeadingBullets(line) ==
    LStrip(Strip(line, WhiteSpace), {"-", Bullet} \cup WhiteSpace)

RECURSIVE CleanLines(_, _)
\* The lines from i on that are not blank, each without its leading bullets.
CleanLines(lines, i) ==
    IF i > Len(lines) THEN <<>>
    ELSE (IF Strip(lines[i], WhiteSpace) # ""
          THEN <<WithoutLeadingBullets(lines[i])>> ELSE <<>>)
         \o CleanLines(lines, i + 1)

\* C7 as stated: the requirements returned are the non-blank lines of the
\* requirements section, in order, each without its leading bullet markers
\* and the whitespace around it; none of them is blank; and there are none
\* when the text has no "Proposal Requirements:".
C7_RequirementLines ==
    pc = "extracted"
        => /\ \A i \in 1..Len(proposal_reqs.value) :
                  Strip(proposal_reqs.value[i], WhiteSpace) # ""
           /\ proposal_reqs.value =
                  IF Find(extracted_text, "Proposal Requirements:", 1, TRUE) = 0
                  THEN <<>>
                  ELSE CleanLines(Split(RequirementsSection, "\n"), 1)

------------------------------------------------------------------------------
(* The claim about the FAQ cache, checked under SpecCache.                 *)

\* C9: a call of load_faq_from_snowflake made less than 600 seconds after
\* the latest fetch of the store does not contact the store and returns
\* what that fetch returned, the empty corpus of a failed fetch included;
\* the first call, and a call made more than 600 seconds after the latest
\* fetch, contacts the store.
C9_ContactOnlyWhenStale ==
    last_call.made
        => LET b == last_call.before
               elapsed == last_call.at - b.at
           IN  /\ (b.any /\ elapsed < 600)
                      => ~last_call.contacted /\ last_call.result = b.value
               /\ (~b.any \/ elapsed > 600) => last_call.contacted

\* A call within the time-to-live of a failed fetch: the store is back, and
\* the call hands out the empty corpus without contacting it.
C9_Witness ==
    /\ last_call.made
    /\ ~last_call.contacted
    /\ last_call.before.any
    /\ last_call.before.value = <<>>
    /\ last_call.at > last_call.before.at
    /\ store.up
    /\ faq_df = <<>>

------------------------------------------------------------------------------
(* The claims about failed reads and about pricing, checked under          *)
(* SpecPages.                                                              *)

RolePages == {"Extract Labor Roles", "Estimate Labor Cost"}

MulExact(a, b) == MulBytes(a, b, 1, Len(a) + Len(b), 0)
AddExact(a, b) ==
    AddBytes(a, b, 1, (IF Len(a) > Len(b) THEN Len(a) ELSE Len(b)) + 1, 0)

RECURSIVE Normal(_)
\* A natural number without its high zero bytes.
Normal(a) ==
    IF Len(a) > 0 /\ a[Len(a)] = 0 THEN Normal(SubSeq(a, 1, Len(a) - 1)) ELSE a

\* The int64 x, read as the signed number it is, equals the natural number n.
Int64Equals(x, n) == x[8] < 128 /\ Normal(x) = Normal(n)

\* The exact product count * duration_days * daily_rate of a row.
ExactCost(row) ==
    MulExact(MulExact(ToBytes(row.count, 4), ToBytes(row.duration_days, 4)),
             ToBytes(row.daily_rate, 4))

RECURSIVE ExactSum(_, _)
\* The exact sum of the exact costs of the first n rows.
ExactSum(rows, n) ==
    IF n = 0 THEN <<>> ELSE AddExact(ExactSum(rows, n - 1), ExactCost(rows[n]))

\* Every row is priced exactly and t is the exact sum of the prices.
PricedExactly(df, t) ==
    /\ \A i \in 1..Len(df) : Int64Equals(df[i].total_cost, ExactCost(df[i]))
    /\ Int64Equals(t, ExactSum(df, Len(df)))

\* C5 as stated: in the summary of the sidebar and on the Estimate Labor
\* Cost page every row has total_cost = count * duration_days * daily_rate
\* exactly, and the total reported is the sum of the rows' total_cost.
C5_ExactCosts ==
    /\ df_roles # <<>> => PricedExactly(df_roles, SummaryTotal)
    /\ (page = "Estimate Labor Cost" /\ page_df.assigned)
           => PricedExactly(page_df.value, total)

====
